---------------------------- MODULE Spec2Model ----------------------------
(***************************************************************************)
(* Model of the rapidflow job execution engine: the persistent job queue   *)
(* (Worker.StartQueue), the per-job executor (Worker.RunJobWithContext),   *)
(* the cancellation registry (Worker.runningJobs), the API cancel handler  *)
(* (Handler.CancelJob) and the CLI stop-pipeline sweep (stopPipeline).     *)
(* Every store statement and every container-daemon call of the source is  *)
(* one atomic step; the goroutines interleave freely between them.         *)
(***************************************************************************)
EXTENDS Integers, Sequences, FiniteSets, TLC

\* ------------------------------------------------------------------ bounds
\* executor goroutines that exist in one run of the server
MaxExec == 2
\* executor goroutines the dispatcher spawns in a run that also takes cancel and stop requests
MaxRuns == 1
\* cancel requests the API receives in one run
MaxCancel == 1
\* jobs waiting in the store when the order of dispatch is examined
MaxJobs == 2

JobIds == {1}
ExecIds == 1..MaxExec

\* ------------------------------------------------------------------ state
VARIABLES
    jobs,         \* jobs table: job id -> row
    steps,        \* steps table: job id -> rows ordered by order_num
    runnables,    \* runnables table: job id -> rows
    deployments,  \* deployments table: job id -> runnable index -> rows
    runningJobs,  \* Worker.runningJobs: job id -> executor whose cancel func is stored (0: no entry)
    ex,           \* the executor goroutines: position and locals of RunJobWithContext
    containers,   \* containers that exist in the daemon
    dirs,         \* clone directories that exist on the host
    disp,         \* the dispatcher goroutine of StartQueue
    handler,      \* the API's CancelJob request in flight
    stop,         \* the stop-pipeline command in flight
    cancels,      \* cancel requests received so far
    cap,          \* executor goroutines the dispatcher may spawn in this run
    named,        \* names of the runnable containers that exist in the daemon
    call          \* a call of one of the package's pure functions: its argument and result

vars == <<jobs, steps, runnables, deployments, runningJobs, ex, containers, dirs,
          disp, handler, stop, cancels, cap, named, call>>

\* the engine's part of the state
engine == <<jobs, steps, runnables, deployments, runningJobs, ex, containers, dirs,
            disp, handler, stop, cancels, cap, named>>

TerminalJob == {"success", "failed", "cancelled", "stopped"}
TerminalStep == {"success", "failed", "cancelled"}

\* ------------------------------------------------------------------ configurations
\* StepConfig: type and number of files
StepBash == [type |-> "bash", files |-> 0]
StepBashFile == [type |-> "bash", files |-> 1]
StepOtherFile == [type |-> "file", files |-> 1]
Steps == <<StepOtherFile, StepBashFile>>

\* OutputConfig types: "local" is registered by NewProviderManager, "registry" is not
RunnableArtifacts ==
    [name |-> "dist", type |-> "artifacts", enabled |-> TRUE, container_name |-> "",
     ports |-> <<>>, outputs |-> <<"registry", "local">>]

\* port mappings of a runnable's configuration: "0:0" and "0:::0"
PortHostContainer == <<"0", ":", "0">>
PortFourTokens == <<"0", ":", ":", ":", "0">>

\* a docker_container runnable, its container named by the configuration or not
RunnableContainer(cn) ==
    [name |-> "web", type |-> "docker_container", enabled |-> TRUE, container_name |-> cn,
     ports |-> <<PortHostContainer>>, outputs |-> <<>>]

\* a docker_container runnable whose second port mapping does not parse
RunnableBadPorts ==
    [RunnableContainer("") EXCEPT !.ports = <<PortHostContainer, PortFourTokens>>]

\* a runnable with enabled: false
RunnableDisabled ==
    [name |-> "off", type |-> "artifacts", enabled |-> FALSE, container_name |-> "",
     ports |-> <<>>, outputs |-> <<"local">>]

ContainerNames == {"", "app"}

\* the PipelineConfig records jobs are created from: a local folder, kept or not
LocalConfigs ==
    { [temporary |-> t, repo_url |-> FALSE, folder |-> TRUE, steps |-> Steps,
       runnables |-> <<RunnableArtifacts, RunnableDisabled, RunnableContainer(cn)>>] :
         t \in BOOLEAN, cn \in ContainerNames }

\* a repository to clone, and a configuration that names no source at all
PipelineConfigs ==
    LocalConfigs \cup
    { [temporary |-> t, repo_url |-> TRUE, folder |-> FALSE,
       steps |-> <<StepBash>>, runnables |-> <<>>] : t \in BOOLEAN } \cup
    { [temporary |-> FALSE, repo_url |-> FALSE, folder |-> FALSE,
       steps |-> <<StepBash>>, runnables |-> <<>>] } \cup
    { [temporary |-> FALSE, repo_url |-> FALSE, folder |-> TRUE,
       steps |-> <<StepBash>>, runnables |-> <<RunnableBadPorts>>] }

\* the configurations of the jobs the queue runs twice
QueueConfigs == {c \in LocalConfigs : c.runnables[3].container_name = ""}

\* rows inserted by CreateJob / runPipeline for one configuration; config is the
\* runnables section of pipelines.config, reached through the job's pipeline_id
JobRow(c) ==
    [status |-> "pending", cancelled |-> FALSE, container_id |-> 0, temp_dir |-> FALSE,
     created_at |-> 1, finished_at |-> FALSE, temporary |-> c.temporary, repo_url |-> c.repo_url,
     folder |-> c.folder, config |-> c.runnables, cancelledWhileRunning |-> FALSE]

StepRows(c) ==
    [k \in 1..Len(c.steps) |->
        [type |-> c.steps[k].type, files |-> c.steps[k].files, status |-> "pending",
         output |-> "none"]]

\* every runnable of the configuration persisted, enabled or not
IsListed(rc) == TRUE

\* for _, runnable := range config.Runnables { if !runnable.Enabled { continue } ... }
IsEnabled(rc) == rc.enabled
EnabledRunnables(c) == SelectSeq(c.runnables, IsEnabled)

RunnableRows(c) ==
    [r \in 1..Len(EnabledRunnables(c)) |->
        [name |-> EnabledRunnables(c)[r].name, type |-> EnabledRunnables(c)[r].type,
         container_name |-> EnabledRunnables(c)[r].container_name,
         ports |-> EnabledRunnables(c)[r].ports,
         status |-> "pending", output |-> "none", artifact_url |-> FALSE]]

DeploymentRows(c) ==
    [r \in 1..Len(EnabledRunnables(c)) |->
        [d \in 1..Len(EnabledRunnables(c)[r].outputs) |->
            [output_type |-> EnabledRunnables(c)[r].outputs[d], status |-> "pending"]]]

\* ------------------------------------------------------------------ initial state
\* no pure function is under call while the engine runs
NoCall == [fn |-> "none", arg |-> <<>>, ret |-> <<>>, prev |-> <<>>, done |-> TRUE]

ExecIdle ==
    [pc |-> "idle", job |-> 0, ctxDone |-> FALSE, err |-> FALSE, cid |-> 0,
     deferRemove |-> FALSE, fallback |-> FALSE, stepIdx |-> 0, fileIdx |-> 0,
     exit |-> "none", rq |-> <<>>, dq |-> <<>>]

\* created_at DATETIME DEFAULT CURRENT_TIMESTAMP: the second in which each job was
\* inserted, jobs inserted in the order of their ids, several of them in one second or not
CreatedAts(ids) ==
    {at \in [ids -> 1..Cardinality(ids)] :
        /\ at[1] = 1
        /\ \A j \in ids : j > 1 => at[j] \in {at[j - 1], at[j - 1] + 1}}

\* the server started on a store that holds the jobs ids, created from configs
InitOn(ids, configs, n) ==
    /\ cap = n
    /\ \E cf \in [ids -> configs], at \in CreatedAts(ids) :
        /\ jobs = [j \in ids |-> [JobRow(cf[j]) EXCEPT !.created_at = at[j]]]
        /\ steps = [j \in ids |-> StepRows(cf[j])]
        /\ runnables = [j \in ids |-> RunnableRows(cf[j])]
        /\ deployments = [j \in ids |-> DeploymentRows(cf[j])]
    /\ runningJobs = [j \in ids |-> 0]
    /\ ex = [e \in ExecIds |-> ExecIdle]
    /\ containers = {}
    /\ dirs = {}
    /\ disp = [pc |-> "sweep", todo |-> {}]
    /\ handler = [pc |-> "idle", job |-> 0, status |-> "none"]
    /\ stop = [pc |-> "idle", todo |-> {}, job |-> 0, container_id |-> 0, temp_dir |-> FALSE,
               settled |-> FALSE]
    /\ cancels = 0
    /\ named = {}
    /\ call = NoCall

InitOf(configs, n) == InitOn(JobIds, configs, n)

\* the server with one dispatched job, open to cancel and stop requests
Init == InitOf(PipelineConfigs, MaxRuns)

\* the dispatcher polling freely while its tasks run
InitQueue == InitOf(QueueConfigs, MaxExec)

\* several jobs waiting, each of one step and one runnable
FifoConfigs ==
    { [temporary |-> FALSE, repo_url |-> FALSE, folder |-> TRUE, steps |-> <<StepBashFile>>,
       runnables |-> <<[RunnableArtifacts EXCEPT !.outputs = <<"local">>]>>] }
InitFifo == InitOn(1..MaxJobs, FifoConfigs, MaxExec)


\* a cancel that flips the job's context instead of cancelling it
CancelJobFlips(x, j) ==
    IF runningJobs[j] = 0 THEN x ELSE [x EXCEPT ![runningJobs[j]].ctxDone = ~@]

\* ------------------------------------------------------------------ cancellation registry
\* Worker.CancelJob: fire the cancel func stored for the job, if any
CancelJob(x, j) ==
    IF runningJobs[j] = 0 THEN x ELSE [x EXCEPT ![runningJobs[j]].ctxDone = TRUE]

\* Worker.CancelJob returns the error "job %d is not currently running"
NotRunning(j) == runningJobs[j] = 0

\* ------------------------------------------------------------------ dispatcher (StartQueue)
\* SELECT * FROM jobs WHERE status = 'running' AND cancelled = 1
CancelledRunning == {j \in DOMAIN jobs : jobs[j].status = "running" /\ jobs[j].cancelled}

\* SELECT id FROM jobs WHERE status = 'pending' ORDER BY created_at ASC LIMIT 1
PendingJobs == {j \in DOMAIN jobs : jobs[j].status = "pending"}

\* ORDER BY created_at DESC: the job created last
NewestPending ==
    {j \in PendingJobs : \A k \in PendingJobs : jobs[j].created_at >= jobs[k].created_at}

\* the rows the query may return: among rows of equal created_at the order is the
\* store's choice
OldestPending ==
    {j \in PendingJobs : \A k \in PendingJobs : jobs[j].created_at <= jobs[k].created_at}

IdleExecs == {e \in ExecIds : ex[e].pc = "idle"}
FreeExec == CHOOSE e \in IdleExecs : \A f \in IdleExecs : e <= f
CanSpawn == Cardinality(ExecIds \ IdleExecs) < cap

DispatcherSweep ==
    /\ disp.pc = "sweep"
    /\ disp' = [pc |-> IF CancelledRunning = {} THEN "select" ELSE "fire",
                todo |-> CancelledRunning]
    /\ UNCHANGED <<jobs, steps, runnables, deployments, runningJobs, ex, containers,
                   dirs, handler, stop, cancels, cap, named, call>>

DispatcherFire ==
    /\ disp.pc = "fire"
    /\ \E j \in disp.todo :
        /\ \A k \in disp.todo : j <= k
        /\ ex' = CancelJob(ex, j)
        /\ disp' = [pc |-> IF disp.todo = {j} THEN "select" ELSE "fire",
                    todo |-> disp.todo \ {j}]
    /\ UNCHANGED <<jobs, steps, runnables, deployments, runningJobs, containers,
                   dirs, handler, stop, cancels, cap, named, call>>

\* no pending job: sleep one second and poll again
DispatcherSleep ==
    /\ disp.pc = "select"
    /\ PendingJobs = {} \/ ~CanSpawn
    /\ disp' = [disp EXCEPT !.pc = "sweep"]
    /\ UNCHANGED <<jobs, steps, runnables, deployments, runningJobs, ex, containers,
                   dirs, handler, stop, cancels, cap, named, call>>

\* go func(id) { w.RunJob(id) ... }(jobID): spawned, not awaited
DispatcherSpawn ==
    /\ disp.pc = "select"
    /\ PendingJobs # {}
    /\ CanSpawn
    /\ \E j \in OldestPending :
        ex' = [ex EXCEPT ![FreeExec] = [ExecIdle EXCEPT !.pc = "entry", !.job = j]]
    /\ disp' = [disp EXCEPT !.pc = "sweep"]
    /\ UNCHANGED <<jobs, steps, runnables, deployments, runningJobs, containers,
                   dirs, handler, stop, cancels, cap, named, call>>

\* a return statement that loses the error
ReturnsNil(e, isErr) ==
    [ex[e] EXCEPT !.pc = "defers", !.err = FALSE, !.fallback = FALSE, !.stepIdx = 0,
                  !.fileIdx = 0, !.exit = "none", !.rq = <<>>, !.dq = <<>>]

\* ------------------------------------------------------------------ executor (RunJobWithContext)
\* a return statement: the locals die, the deferred calls run next
Return(e, isErr) ==
    [ex[e] EXCEPT !.pc = "defers", !.err = isErr, !.fallback = FALSE, !.stepIdx = 0,
                  !.fileIdx = 0, !.exit = "none", !.rq = <<>>, !.dq = <<>>]

Goto(e, label) == [ex[e] EXCEPT !.pc = label]

\* a removal registered for every job, temporary or not
RemovesAlways(isTemporary) == TRUE

\* the defer of ContainerRemove is registered for non-temporary jobs only
RegistersRemoval(isTemporary) == ~isTemporary

\* w.addRunningJob(jobID, cancel)
Entry(e) ==
    /\ ex[e].pc = "entry"
    /\ runningJobs' = [runningJobs EXCEPT ![ex[e].job] = e]
    /\ ex' = [ex EXCEPT ![e] = Goto(e, "preflight")]
    /\ UNCHANGED <<jobs, steps, runnables, deployments, containers, dirs, disp,
                   handler, stop, cancels, cap, named, call>>

\* SELECT * FROM jobs WHERE id = ?; if job.Cancelled { return nil }
Preflight(e) ==
    /\ ex[e].pc = "preflight"
    /\ ex' = [ex EXCEPT ![e] = IF jobs[ex[e].job].cancelled
                                 THEN Return(e, FALSE) ELSE Goto(e, "markRunning")]
    /\ UNCHANGED <<jobs, steps, runnables, deployments, runningJobs, containers, dirs,
                   disp, handler, stop, cancels, cap, named, call>>

\* UPDATE jobs SET status = 'running', started_at = ...
MarkRunning(e) ==
    /\ ex[e].pc = "markRunning"
    /\ \/ /\ jobs' = [jobs EXCEPT ![ex[e].job].status = "running"]
          /\ ex' = [ex EXCEPT ![e] = Goto(e, "acquire")]
       \/ /\ ex' = [ex EXCEPT ![e] = Return(e, TRUE)]
          /\ UNCHANGED jobs
    /\ UNCHANGED <<steps, runnables, deployments, runningJobs, containers, dirs, disp,
                   handler, stop, cancels, cap, named, call>>

\* clone the repository, or use the local folder, or fail
Acquire(e) ==
    /\ ex[e].pc = "acquire"
    /\ LET j == ex[e].job IN
       IF jobs[j].repo_url
       THEN /\ dirs' = dirs \cup {j}
            /\ jobs' = IF jobs[j].temporary
                       THEN [jobs EXCEPT ![j].temp_dir = TRUE] ELSE jobs
            /\ \E cloned \in BOOLEAN :
                ex' = [ex EXCEPT ![e] = IF cloned THEN Goto(e, "check1") ELSE Return(e, TRUE)]
       ELSE /\ ex' = [ex EXCEPT ![e] = IF jobs[j].folder
                                        THEN Goto(e, "check1") ELSE Return(e, TRUE)]
            /\ UNCHANGED <<jobs, dirs>>
    /\ UNCHANGED <<steps, runnables, deployments, runningJobs, containers, disp,
                   handler, stop, cancels, cap, named, call>>

\* select { case <-jobCtx.Done(): UPDATE jobs SET status = 'cancelled' ...; return err }
CheckCancelled(e, here, next) ==
    /\ ex[e].pc = here
    /\ IF ex[e].ctxDone
       THEN /\ jobs' = [jobs EXCEPT ![ex[e].job].status = "cancelled",
                                    ![ex[e].job].finished_at = TRUE]
            /\ ex' = [ex EXCEPT ![e] = Return(e, TRUE)]
       ELSE /\ ex' = [ex EXCEPT ![e] = Goto(e, next)]
            /\ UNCHANGED jobs
    /\ UNCHANGED <<steps, runnables, deployments, runningJobs, containers, dirs, disp,
                   handler, stop, cancels, cap, named, call>>

Check1(e) == CheckCancelled(e, "check1", "pull")

\* a daemon call made with jobCtx fails once the context is cancelled; it may
\* also fail for the daemon's own reasons
DaemonOutcomes(e) == IF ex[e].ctxDone THEN {FALSE} ELSE BOOLEAN

\* what a pull ends in: ImagePull returns an error ("refused"), or it returns a stream and
\* io.Copy of the stream fails ("broken"), or both succeed; a cancelled context refuses
PullOutcomes(e) == IF ex[e].ctxDone THEN {"refused"} ELSE {"refused", "broken", "pulled"}

\* w.Docker.ImagePull(jobCtx, baseImage), io.Copy(io.Discard, out)
Pull(e) ==
    /\ ex[e].pc = "pull"
    /\ \E out \in PullOutcomes(e) :
        ex' = [ex EXCEPT ![e] =
                 IF out = "pulled" THEN Goto(e, "check2")
                 ELSE IF out = "broken" THEN Return(e, TRUE)
                 ELSE [ex[e] EXCEPT !.pc = "pullFallback", !.fallback = TRUE]]
    /\ UNCHANGED <<jobs, steps, runnables, deployments, runningJobs, containers, dirs,
                   disp, handler, stop, cancels, cap, named, call>>

\* w.Docker.ImagePull(jobCtx, "ubuntu:latest"), io.Copy(io.Discard, out)
PullFallback(e) ==
    /\ ex[e].pc = "pullFallback"
    /\ \E out \in PullOutcomes(e) :
        ex' = [ex EXCEPT ![e] = IF out = "pulled" THEN Goto(e, "check2") ELSE Return(e, TRUE)]
    /\ UNCHANGED <<jobs, steps, runnables, deployments, runningJobs, containers, dirs,
                   disp, handler, stop, cancels, cap, named, call>>

Check2(e) == CheckCancelled(e, "check2", "create")

\* w.Docker.ContainerCreate(jobCtx, ...): the build container's id is the executor's
Create(e) ==
    /\ ex[e].pc = "create"
    /\ \E ok \in DaemonOutcomes(e) :
        IF ok
        THEN /\ containers' = containers \cup {e}
             /\ ex' = [ex EXCEPT ![e] = [ex[e] EXCEPT !.pc = "recordContainer", !.cid = e]]
        ELSE /\ ex' = [ex EXCEPT ![e] = Return(e, TRUE)]
             /\ UNCHANGED containers
    /\ UNCHANGED <<jobs, steps, runnables, deployments, runningJobs, dirs, disp,
                   handler, stop, cancels, cap, named, call>>

\* UPDATE jobs SET container_id = ?; then the defer for non-temporary jobs
RecordContainer(e) ==
    /\ ex[e].pc = "recordContainer"
    /\ \/ /\ jobs' = [jobs EXCEPT ![ex[e].job].container_id = ex[e].cid]
          /\ ex' = [ex EXCEPT ![e] =
                      [ex[e] EXCEPT !.pc = "start",
                                    !.deferRemove = RegistersRemoval(jobs[ex[e].job].temporary)]]
       \/ /\ ex' = [ex EXCEPT ![e] = Return(e, TRUE)]
          /\ UNCHANGED jobs
    /\ UNCHANGED <<steps, runnables, deployments, runningJobs, containers, dirs, disp,
                   handler, stop, cancels, cap, named, call>>

\* SELECT * FROM steps WHERE job_id = ? ORDER BY order_num; the loop starts at the first
ToSteps(e) == [ex[e] EXCEPT !.pc = "stepCheck", !.stepIdx = 1]

\* a start that runs the installer whatever image was pulled
StartInstallsAlways(e) ==
    /\ ex[e].pc = "start"
    /\ \E ok \in DaemonOutcomes(e) :
        ex' = [ex EXCEPT ![e] = IF ~ok THEN Return(e, TRUE) ELSE Goto(e, "install")]
    /\ UNCHANGED <<jobs, steps, runnables, deployments, runningJobs, containers, dirs,
                   disp, handler, stop, cancels, cap, named, call>>

\* w.Docker.ContainerStart(jobCtx, containerID)
Start(e) ==
    /\ ex[e].pc = "start"
    /\ \E ok \in DaemonOutcomes(e) :
        ex' = [ex EXCEPT ![e] = IF ~ok THEN Return(e, TRUE)
                                ELSE IF ex[e].fallback THEN Goto(e, "install")
                                ELSE ToSteps(e)]
    /\ UNCHANGED <<jobs, steps, runnables, deployments, runningJobs, containers, dirs,
                   disp, handler, stop, cancels, cap, named, call>>


\* if fallback: os.Stat(scripts/{language}-{version}.sh), write the script into the container
Install(e) ==
    /\ ex[e].pc = "install"
    /\ \E scriptExists \in BOOLEAN, ok \in DaemonOutcomes(e) :
        ex' = [ex EXCEPT ![e] = IF ~scriptExists THEN ToSteps(e)
                                ELSE IF ok THEN Goto(e, "installDrain")
                                ELSE Return(e, TRUE)]
    /\ UNCHANGED <<jobs, steps, runnables, deployments, runningJobs, containers, dirs,
                   disp, handler, stop, cancels, cap, named, call>>

\* the installer's output: a line with the context cancelled settles the job
InstallLine(e) ==
    /\ ex[e].pc = "installDrain"
    /\ ex[e].ctxDone
    /\ jobs' = [jobs EXCEPT ![ex[e].job].status = "cancelled", ![ex[e].job].finished_at = TRUE]
    /\ ex' = [ex EXCEPT ![e] = Return(e, TRUE)]
    /\ UNCHANGED <<steps, runnables, deployments, runningJobs, containers, dirs, disp,
                   handler, stop, cancels, cap, named, call>>

\* end of the installer's output: ContainerExecInspect and the exit code
InstallExit(e) ==
    /\ ex[e].pc = "installDrain"
    /\ \E ok \in DaemonOutcomes(e) :
        ex' = [ex EXCEPT ![e] = IF ok THEN ToSteps(e) ELSE Return(e, TRUE)]
    /\ UNCHANGED <<jobs, steps, runnables, deployments, runningJobs, containers, dirs,
                   disp, handler, stop, cancels, cap, named, call>>

\* UPDATE steps SET status = 'cancelled' WHERE job_id = ? AND status IN ('pending', 'running')
CancelOpenSteps(j) ==
    [steps EXCEPT ![j] = [k \in DOMAIN steps[j] |->
        IF steps[j][k].status \in {"pending", "running"}
        THEN [steps[j][k] EXCEPT !.status = "cancelled"] ELSE steps[j][k]]]

\* the next iteration of the step loop
NextStep(e) == [ex[e] EXCEPT !.pc = "stepCheck", !.stepIdx = ex[e].stepIdx + 1, !.fileIdx = 0,
                             !.exit = "none"]

\* after the file loop: the script of a bash step, nothing for any other type
AfterFiles(e) ==
    IF steps[ex[e].job][ex[e].stepIdx].type = "bash"
    THEN [ex[e] EXCEPT !.pc = "script", !.fileIdx = 0]
    ELSE NextStep(e)

\* the next iteration of the file loop ("continue" and the loop's end alike)
NextFile(e) ==
    IF ex[e].fileIdx < steps[ex[e].job][ex[e].stepIdx].files
    THEN [ex[e] EXCEPT !.pc = "file", !.fileIdx = ex[e].fileIdx + 1]
    ELSE AfterFiles(e)

\* top of the step loop: the cancellation check, or the loop's end
StepCheck(e) ==
    /\ ex[e].pc = "stepCheck"
    /\ LET j == ex[e].job IN
       IF ex[e].stepIdx > Len(steps[j])
       THEN /\ ex' = [ex EXCEPT ![e] = [ex[e] EXCEPT !.pc = "markSuccess", !.stepIdx = 0]]
            /\ UNCHANGED jobs
       ELSE IF ex[e].ctxDone
       THEN /\ jobs' = [jobs EXCEPT ![j].status = "cancelled", ![j].finished_at = TRUE]
            /\ ex' = [ex EXCEPT ![e] = Goto(e, "cancelSteps")]
       ELSE /\ ex' = [ex EXCEPT ![e] = Goto(e, "stepRunning")]
            /\ UNCHANGED jobs
    /\ UNCHANGED <<steps, runnables, deployments, runningJobs, containers, dirs, disp,
                   handler, stop, cancels, cap, named, call>>

CancelSteps(e) ==
    /\ ex[e].pc = "cancelSteps"
    /\ steps' = CancelOpenSteps(ex[e].job)
    /\ ex' = [ex EXCEPT ![e] = Return(e, TRUE)]
    /\ UNCHANGED <<jobs, runnables, deployments, runningJobs, containers, dirs, disp,
                   handler, stop, cancels, cap, named, call>>

\* UPDATE steps SET status = 'running' WHERE id = ?
StepRunning(e) ==
    /\ ex[e].pc = "stepRunning"
    /\ LET j == ex[e].job
           k == ex[e].stepIdx IN
       /\ steps' = [steps EXCEPT ![j][k].status = "running"]
       /\ ex' = [ex EXCEPT ![e] = IF steps[j][k].files > 0
                                   THEN [ex[e] EXCEPT !.pc = "file", !.fileIdx = 1]
                                   ELSE AfterFiles(e)]
    /\ UNCHANGED <<jobs, runnables, deployments, runningJobs, containers, dirs, disp,
                   handler, stop, cancels, cap, named, call>>

\* the exec that writes one file: echo '{content}' > {name}
File(e) ==
    /\ ex[e].pc = "file"
    /\ \E ok \in DaemonOutcomes(e), exitZero \in BOOLEAN :
        ex' = [ex EXCEPT ![e] = IF ~ok THEN Return(e, TRUE)
                                ELSE IF exitZero THEN NextFile(e)
                                ELSE Goto(e, "fileFailed")]
    /\ UNCHANGED <<jobs, steps, runnables, deployments, runningJobs, containers, dirs,
                   disp, handler, stop, cancels, cap, named, call>>

\* UPDATE steps SET status = 'failed', output = 'Failed to create file'; continue
FileFailed(e) ==
    /\ ex[e].pc = "fileFailed"
    /\ steps' = [steps EXCEPT ![ex[e].job][ex[e].stepIdx].status = "failed",
                              ![ex[e].job][ex[e].stepIdx].output = "Failed to create file"]
    /\ ex' = [ex EXCEPT ![e] = NextFile(e)]
    /\ UNCHANGED <<jobs, runnables, deployments, runningJobs, containers, dirs, disp,
                   handler, stop, cancels, cap, named, call>>

\* ContainerExecCreate and ContainerExecAttach of sh -c {content}
Script(e) ==
    /\ ex[e].pc = "script"
    /\ \E ok \in DaemonOutcomes(e) :
        ex' = [ex EXCEPT ![e] = IF ok THEN Goto(e, "drain") ELSE Return(e, TRUE)]
    /\ UNCHANGED <<jobs, steps, runnables, deployments, runningJobs, containers, dirs,
                   disp, handler, stop, cancels, cap, named, call>>

\* a line of the step's output read with the context cancelled
DrainLine(e) ==
    /\ ex[e].pc = "drain"
    /\ ex[e].ctxDone
    /\ jobs' = [jobs EXCEPT ![ex[e].job].status = "cancelled", ![ex[e].job].finished_at = TRUE]
    /\ ex' = [ex EXCEPT ![e] = Goto(e, "cancelSteps")]
    /\ UNCHANGED <<steps, runnables, deployments, runningJobs, containers, dirs, disp,
                   handler, stop, cancels, cap, named, call>>

\* end of the step's output: ContainerExecInspect and the exit code
DrainEnd(e) ==
    /\ ex[e].pc = "drain"
    /\ \E ok \in DaemonOutcomes(e), exitZero \in BOOLEAN :
        ex' = [ex EXCEPT ![e] = IF ~ok THEN Return(e, TRUE)
                                ELSE [ex[e] EXCEPT !.pc = "stepWrite",
                                         !.exit = IF exitZero THEN "success" ELSE "failed"]]
    /\ UNCHANGED <<jobs, steps, runnables, deployments, runningJobs, containers, dirs,
                   disp, handler, stop, cancels, cap, named, call>>

\* UPDATE steps SET status = ?, output = ? WHERE id = ?
StepWrite(e) ==
    /\ ex[e].pc = "stepWrite"
    /\ steps' = [steps EXCEPT ![ex[e].job][ex[e].stepIdx].status = ex[e].exit,
                              ![ex[e].job][ex[e].stepIdx].output = "captured"]
    /\ ex' = [ex EXCEPT ![e] = IF ex[e].exit = "failed"
                                THEN [ex[e] EXCEPT !.pc = "failJob", !.exit = "none"]
                                ELSE NextStep(e)]
    /\ UNCHANGED <<jobs, runnables, deployments, runningJobs, containers, dirs, disp,
                   handler, stop, cancels, cap, named, call>>

\* UPDATE jobs SET status = 'failed', finished_at = ...; return err
FailJob(e) ==
    /\ ex[e].pc = "failJob"
    /\ jobs' = [jobs EXCEPT ![ex[e].job].status = "failed", ![ex[e].job].finished_at = TRUE]
    /\ ex' = [ex EXCEPT ![e] = Return(e, TRUE)]
    /\ UNCHANGED <<steps, runnables, deployments, runningJobs, containers, dirs, disp,
                   handler, stop, cancels, cap, named, call>>

\* UPDATE jobs SET status = 'success', finished_at = ...
MarkSuccess(e) ==
    /\ ex[e].pc = "markSuccess"
    /\ \/ /\ jobs' = [jobs EXCEPT ![ex[e].job].status = "success",
                                  ![ex[e].job].finished_at = TRUE]
          /\ ex' = [ex EXCEPT ![e] = Goto(e, "runnables")]
       \/ /\ ex' = [ex EXCEPT ![e] = Return(e, TRUE)]
          /\ UNCHANGED jobs
    /\ UNCHANGED <<steps, runnables, deployments, runningJobs, containers, dirs, disp,
                   handler, stop, cancels, cap, named, call>>


\* ------------------------------------------------------------------ runnables and deployments
\* the providers NewProviderManager registers
RegisteredProviders == {"s3", "email", "webhook", "local", "vps", "nginx"}

\* SELECT ... WHERE status = 'pending', as the list of row indices in order
RECURSIVE PendingIdx(_, _)
PendingIdx(rows, k) ==
    IF k > Len(rows) THEN <<>>
    ELSE IF rows[k].status = "pending" THEN <<k>> \o PendingIdx(rows, k + 1)
    ELSE PendingIdx(rows, k + 1)

\* a loop over runnables that returns at the first runnable processed
NextRunnableAborts(e) == Return(e, FALSE)

\* the next iteration of the loop over runnables, or processRunnables returns
NextRunnable(e) ==
    IF Len(ex[e].rq) > 1
    THEN [ex[e] EXCEPT !.pc = "runnableRunning", !.rq = Tail(ex[e].rq), !.dq = <<>>,
                       !.exit = "none"]
    ELSE Return(e, FALSE)

\* a loop over deployments that stops at the first failed one
AfterDeploymentAborts(e) ==
    IF Len(ex[e].dq) > 1 /\ ex[e].exit # "failed"
    THEN [ex[e] EXCEPT !.pc = "deploy", !.dq = Tail(ex[e].dq), !.exit = "none"]
    ELSE NextRunnable(e)

\* where processDeployments goes after recording one deployment, failed or not
AfterDeployment(e) ==
    IF Len(ex[e].dq) > 1
    THEN [ex[e] EXCEPT !.pc = "deploy", !.dq = Tail(ex[e].dq), !.exit = "none"]
    ELSE NextRunnable(e)

\* processRunnables: SELECT * FROM runnables WHERE job_id = ? AND status = 'pending'
ProcessRunnables(e) ==
    /\ ex[e].pc = "runnables"
    /\ LET q == PendingIdx(runnables[ex[e].job], 1) IN
       ex' = [ex EXCEPT ![e] = IF q = <<>> THEN Return(e, FALSE)
                               ELSE [ex[e] EXCEPT !.pc = "runnableRunning", !.rq = q]]
    /\ UNCHANGED <<jobs, steps, runnables, deployments, runningJobs, containers, dirs,
                   disp, handler, stop, cancels, cap, named, call>>

\* processRunnable: UPDATE runnables SET status = 'running'
RunnableRunning(e) ==
    /\ ex[e].pc = "runnableRunning"
    /\ \/ /\ runnables' = [runnables EXCEPT ![ex[e].job][Head(ex[e].rq)].status = "running"]
          /\ ex' = [ex EXCEPT ![e] = Goto(e, "produce")]
       \/ /\ ex' = [ex EXCEPT ![e] = Goto(e, "runnableFailed")]
          /\ UNCHANGED runnables
    /\ UNCHANGED <<jobs, steps, deployments, runningJobs, containers, dirs, disp,
                   handler, stop, cancels, cap, named, call>>

\* handleDockerContainer: config.ContainerName, or rapidflow-run-{jobID}-{name}
ContainerName(j, row) ==
    IF row.container_name # "" THEN <<row.container_name, 0, "">>
    ELSE <<"rapidflow-run", j, row.name>>

DefaultIP == <<"0", ".", "0", ".", "0", ".", "0">>

\* strings.Split(s, ":"): the tokens between the colons, one (empty) token for ""
RECURSIVE Split(_)
Split(s) ==
    IF \A i \in 1..Len(s) : s[i] # ":"
    THEN <<s>>
    ELSE LET i == CHOOSE k \in 1..Len(s) : s[k] = ":" /\ \A m \in 1..(k - 1) : s[m] # ":"
         IN  <<SubSeq(s, 1, i - 1)>> \o Split(SubSeq(s, i + 1, Len(s)))

PortError == [hostPort |-> <<>>, containerPort |-> <<>>, hostIP |-> <<>>, err |-> TRUE]

\* a two-token mapping read as container:host
parsePortMappingSwapped(portStr) ==
    LET parts == Split(portStr) IN
    CASE Len(parts) = 1 -> [hostPort |-> parts[1], containerPort |-> parts[1],
                            hostIP |-> DefaultIP, err |-> FALSE]
      [] Len(parts) = 2 -> [hostPort |-> parts[2], containerPort |-> parts[1],
                            hostIP |-> DefaultIP, err |-> FALSE]
      [] Len(parts) = 3 -> [hostPort |-> parts[2], containerPort |-> parts[3],
                            hostIP |-> parts[1], err |-> FALSE]
      [] OTHER -> PortError

\* switch len(parts) { case 1: ... case 2: ... case 3: ... default: error }
parsePortMapping(portStr) ==
    LET parts == Split(portStr) IN
    CASE Len(parts) = 1 -> [hostPort |-> parts[1], containerPort |-> parts[1],
                            hostIP |-> DefaultIP, err |-> FALSE]
      [] Len(parts) = 2 -> [hostPort |-> parts[1], containerPort |-> parts[2],
                            hostIP |-> DefaultIP, err |-> FALSE]
      [] Len(parts) = 3 -> [hostPort |-> parts[2], containerPort |-> parts[3],
                            hostIP |-> parts[1], err |-> FALSE]
      [] OTHER -> PortError

\* for _, portMapping := range config.Ports: the first mapping that fails to parse
\* returns the error
PortsParse(ports) == \A i \in 1..Len(ports) : ~parsePortMapping(ports[i]).err

\* a producer that binds whatever ports the configuration lists
ProducerOutcomesUnparsed(e, row) ==
    IF ex[e].ctxDone THEN {"failed"}
    ELSE IF row.type = "docker_container" THEN {"failed", "removed", "created", "started"}
    ELSE {"failed", "produced"}

\* what the producer of a runnable can end in: every producer may fail, and fails once
\* the context is cancelled; handleDockerContainer may also create its container and
\* then fail to start it, or remove the container that holds its name and fail to create
\* its own; a port mapping that does not parse returns before any of that
ProducerOutcomes(e, row) ==
    IF ex[e].ctxDone THEN {"failed"}
    ELSE IF row.type = "docker_container"
         THEN IF PortsParse(row.ports) THEN {"failed", "removed", "created", "started"}
              ELSE {"failed"}
    ELSE {"failed", "produced"}

\* the producer of the runnable's type (commit and run, copy-out, archive), made with jobCtx
Produce(e) ==
    /\ ex[e].pc = "produce"
    /\ LET j == ex[e].job
           row == runnables[j][Head(ex[e].rq)]
       IN \E out \in ProducerOutcomes(e, row) :
            /\ named' = IF out \in {"created", "started"}
                        THEN named \cup {ContainerName(j, row)}
                        ELSE IF out = "removed" THEN named \ {ContainerName(j, row)}
                        ELSE named
            /\ ex' = [ex EXCEPT ![e] = IF out \in {"produced", "started"}
                                        THEN Goto(e, "runnableSuccess")
                                        ELSE Goto(e, "runnableFailed")]
    /\ UNCHANGED <<jobs, steps, runnables, deployments, runningJobs, containers, dirs,
                   disp, handler, stop, cancels, cap, call>>

\* UPDATE runnables SET artifact_url = ?, status = 'success'
RunnableSuccess(e) ==
    /\ ex[e].pc = "runnableSuccess"
    /\ \/ /\ runnables' = [runnables EXCEPT ![ex[e].job][Head(ex[e].rq)].status = "success",
                                           ![ex[e].job][Head(ex[e].rq)].artifact_url = TRUE]
          /\ ex' = [ex EXCEPT ![e] = Goto(e, "deployments")]
       \/ /\ ex' = [ex EXCEPT ![e] = Goto(e, "runnableFailed")]
          /\ UNCHANGED runnables
    /\ UNCHANGED <<jobs, steps, deployments, runningJobs, containers, dirs, disp,
                   handler, stop, cancels, cap, named, call>>

\* processRunnables: UPDATE runnables SET status = 'failed', output = err; continue
RunnableFailed(e) ==
    /\ ex[e].pc = "runnableFailed"
    /\ runnables' = [runnables EXCEPT ![ex[e].job][Head(ex[e].rq)].status = "failed",
                                      ![ex[e].job][Head(ex[e].rq)].output = "error"]
    /\ ex' = [ex EXCEPT ![e] = NextRunnable(e)]
    /\ UNCHANGED <<jobs, steps, deployments, runningJobs, containers, dirs, disp,
                   handler, stop, cancels, cap, named, call>>

\* processDeployments: SELECT * FROM deployments WHERE runnable_id = ? AND status = 'pending'
ProcessDeployments(e) ==
    /\ ex[e].pc = "deployments"
    /\ LET q == PendingIdx(deployments[ex[e].job][Head(ex[e].rq)], 1) IN
       ex' = [ex EXCEPT ![e] = IF q = <<>> THEN NextRunnable(e)
                               ELSE [ex[e] EXCEPT !.pc = "deploy", !.dq = q]]
    /\ UNCHANGED <<jobs, steps, runnables, deployments, runningJobs, containers, dirs,
                   disp, handler, stop, cancels, cap, named, call>>

\* processDeployment: GetProvider(deployment.OutputType), then provider.Deploy(ctx, ...)
ProcessDeployment(e) ==
    /\ ex[e].pc = "deploy"
    /\ LET d == deployments[ex[e].job][Head(ex[e].rq)][Head(ex[e].dq)] IN
       \E deployed \in BOOLEAN :
        ex' = [ex EXCEPT ![e] =
                 [ex[e] EXCEPT !.pc = "deployWrite",
                               !.exit = IF d.output_type \in RegisteredProviders /\ deployed
                                        THEN "success" ELSE "failed"]]
    /\ UNCHANGED <<jobs, steps, runnables, deployments, runningJobs, containers, dirs,
                   disp, handler, stop, cancels, cap, named, call>>

\* UPDATE deployments SET status = 'failed' | 'success' WHERE id = ?
DeploymentWrite(e) ==
    /\ ex[e].pc = "deployWrite"
    /\ deployments' = [deployments EXCEPT
                         ![ex[e].job][Head(ex[e].rq)][Head(ex[e].dq)].status = ex[e].exit]
    /\ ex' = [ex EXCEPT ![e] = AfterDeployment(e)]
    /\ UNCHANGED <<jobs, steps, runnables, runningJobs, containers, dirs, disp,
                   handler, stop, cancels, cap, named, call>>

\* ------------------------------------------------------------------ executor exit
\* defer w.Docker.ContainerRemove(context.Background(), containerID, Force)
Defers(e) ==
    /\ ex[e].pc = "defers"
    /\ containers' = IF ex[e].deferRemove THEN containers \ {ex[e].cid} ELSE containers
    /\ ex' = [ex EXCEPT ![e] = Goto(e, "unregister")]
    /\ UNCHANGED <<jobs, steps, runnables, deployments, runningJobs, dirs, disp,
                   handler, stop, cancels, cap, named, call>>

\* defer w.removeRunningJob(jobID); defer cancel()
Unregister(e) ==
    /\ ex[e].pc = "unregister"
    /\ runningJobs' = [runningJobs EXCEPT ![ex[e].job] = 0]
    /\ ex' = [ex EXCEPT ![e] = [ex[e] EXCEPT !.pc = IF ex[e].err THEN "wrapper" ELSE "done",
                                            !.ctxDone = TRUE]]
    /\ UNCHANGED <<jobs, steps, runnables, deployments, containers, dirs, disp,
                   handler, stop, cancels, cap, named, call>>

\* StartQueue's task: if err != nil { UPDATE jobs SET status = 'failed', finished_at = ... }
Wrapper(e) ==
    /\ ex[e].pc = "wrapper"
    /\ jobs' = [jobs EXCEPT ![ex[e].job].status = "failed", ![ex[e].job].finished_at = TRUE]
    /\ ex' = [ex EXCEPT ![e] = Goto(e, "done")]
    /\ UNCHANGED <<steps, runnables, deployments, runningJobs, containers, dirs, disp,
                   handler, stop, cancels, cap, named, call>>

\* ------------------------------------------------------------------ API cancel handler
\* SELECT * FROM jobs WHERE id = ?; 400 unless the status is running or pending
HandlerRead ==
    /\ handler.pc = "idle"
    /\ cancels < MaxCancel
    /\ cancels' = cancels + 1
    /\ \E j \in JobIds :
        handler' = IF jobs[j].status \in {"running", "pending"}
                   THEN [pc |-> "flag", job |-> j, status |-> jobs[j].status]
                   ELSE handler
    /\ UNCHANGED <<jobs, steps, runnables, deployments, runningJobs, ex, containers,
                   dirs, disp, stop, cap, named, call>>

\* UPDATE jobs SET cancelled = 1 WHERE id = ?
HandlerFlag ==
    /\ handler.pc = "flag"
    /\ jobs' = [jobs EXCEPT ![handler.job].cancelled = TRUE,
                            ![handler.job].cancelledWhileRunning =
                                @ \/ jobs[handler.job].status = "running"]
    /\ handler' = [handler EXCEPT !.pc = IF handler.status = "running" THEN "fire" ELSE "status"]
    /\ UNCHANGED <<steps, runnables, deployments, runningJobs, ex, containers, dirs,
                   disp, stop, cancels, cap, named, call>>

\* if job.Status == "running" { h.Worker.CancelJob(id) }
HandlerFire ==
    /\ handler.pc = "fire"
    /\ ex' = CancelJob(ex, handler.job)
    /\ handler' = [handler EXCEPT !.pc = "status"]
    /\ UNCHANGED <<jobs, steps, runnables, deployments, runningJobs, containers, dirs,
                   disp, stop, cancels, cap, named, call>>

\* UPDATE jobs SET status = 'cancelled', finished_at = ...
HandlerStatus ==
    /\ handler.pc = "status"
    /\ jobs' = [jobs EXCEPT ![handler.job].status = "cancelled",
                            ![handler.job].finished_at = TRUE]
    /\ handler' = [handler EXCEPT !.pc = "steps"]
    /\ UNCHANGED <<steps, runnables, deployments, runningJobs, ex, containers, dirs,
                   disp, stop, cancels, cap, named, call>>

\* UPDATE steps SET status = 'cancelled' WHERE job_id = ? AND status IN ('pending', 'running')
HandlerSteps ==
    /\ handler.pc = "steps"
    /\ steps' = CancelOpenSteps(handler.job)
    /\ handler' = [pc |-> "idle", job |-> 0, status |-> "none"]
    /\ UNCHANGED <<jobs, runnables, deployments, runningJobs, ex, containers, dirs,
                   disp, stop, cancels, cap, named, call>>

\* ------------------------------------------------------------------ stop-pipeline (CLI)
\* job j has been run and nothing works on it: its executors have returned, no cancel
\* request is in flight
Quiet(j) ==
    /\ \E e \in ExecIds : ex[e].job = j /\ ex[e].pc = "done"
    /\ \A e \in ExecIds : ex[e].pc \in {"idle", "done"}
    /\ handler.pc = "idle"

\* SELECT * FROM jobs WHERE pipeline_id = ?: the rows as they are now; settled records
\* whether the job was quiet when the command was invoked
StopRead ==
    /\ stop.pc = "idle"
    /\ stop' = [pc |-> "cleanup", todo |-> JobIds \ {1}, job |-> 1,
                container_id |-> jobs[1].container_id, temp_dir |-> jobs[1].temp_dir,
                settled |-> Quiet(1)]
    /\ UNCHANGED <<jobs, steps, runnables, deployments, runningJobs, ex, containers,
                   dirs, disp, handler, cancels, cap, named, call>>

\* the names stop-pipeline removes: runnableConfig.ContainerName of the job's runnables,
\* where it is not empty
ConfiguredNames(j) ==
    { <<runnables[j][r].container_name, 0, "">> :
        r \in {q \in DOMAIN runnables[j] : runnables[j][q].container_name # ""} }

\* w.CancelJob on the command's own, empty registry; RemoveContainerByName for the
\* configured names; then CleanupJobResources
StopCleanup ==
    /\ stop.pc = "cleanup"
    /\ named' = named \ ConfiguredNames(stop.job)
    /\ containers' = containers \ {stop.container_id}
    /\ dirs' = IF stop.temp_dir THEN dirs \ {stop.job} ELSE dirs
    /\ stop' = [stop EXCEPT !.pc = "mark"]
    /\ UNCHANGED <<jobs, steps, runnables, deployments, runningJobs, ex, disp, handler,
                   cancels, cap, call>>

\* UPDATE jobs SET status = 'stopped', finished_at = ...
StopMark ==
    /\ stop.pc = "mark"
    /\ jobs' = [jobs EXCEPT ![stop.job].status = "stopped", ![stop.job].finished_at = TRUE]
    /\ stop' = [pc |-> "done", todo |-> {}, job |-> 0, container_id |-> 0, temp_dir |-> FALSE,
                settled |-> stop.settled]
    /\ UNCHANGED <<steps, runnables, deployments, runningJobs, ex, containers, dirs,
                   disp, handler, cancels, cap, named, call>>

\* ------------------------------------------------------------------ specification
Dispatcher == DispatcherSweep \/ DispatcherFire \/ DispatcherSleep \/ DispatcherSpawn

\* the executor's steps that need no cancellation to happen
ExecutorBody(e) ==
    \/ Entry(e) \/ Preflight(e) \/ MarkRunning(e) \/ Acquire(e) \/ Check1(e) \/ Pull(e)
    \/ PullFallback(e) \/ Check2(e) \/ Create(e) \/ RecordContainer(e) \/ Start(e)
    \/ Install(e) \/ InstallExit(e)
    \/ StepCheck(e) \/ StepRunning(e) \/ File(e) \/ FileFailed(e)
    \/ Script(e) \/ DrainEnd(e) \/ StepWrite(e) \/ FailJob(e)
    \/ MarkSuccess(e)
    \/ ProcessRunnables(e) \/ RunnableRunning(e) \/ Produce(e) \/ RunnableSuccess(e)
    \/ RunnableFailed(e) \/ ProcessDeployments(e) \/ ProcessDeployment(e)
    \/ DeploymentWrite(e)
    \/ Defers(e) \/ Unregister(e)

\* w.RunJob(id) in the dispatcher's task: the run, then the task's error branch
ExecutorRun(e) == ExecutorBody(e) \/ Wrapper(e)

\* the steps taken only once the job's context is cancelled
ExecutorCancelled(e) == InstallLine(e) \/ CancelSteps(e) \/ DrainLine(e)

Executor(e) == ExecutorRun(e) \/ ExecutorCancelled(e)

HandlerCancelJob == HandlerRead \/ HandlerFlag \/ HandlerFire \/ HandlerStatus \/ HandlerSteps

StopPipeline == StopRead \/ StopCleanup \/ StopMark

Next ==
    \/ Dispatcher
    \/ \E e \in ExecIds : Executor(e)
    \/ HandlerCancelJob
    \/ StopPipeline

Spec == Init /\ [][Next]_vars

\* the steps the Go scheduler gives the executor goroutine: all but the reads of a
\* script's output, which wait for the process in the container to write or to exit
Scheduled(e) == ex[e].pc \notin {"installDrain", "drain"} /\ Executor(e)

\* the server with every goroutine scheduled and every request in flight carried on;
\* nothing is assumed of the scripts run in the containers nor of the requests' arrival
SpecLive ==
    /\ Init /\ [][Next]_vars
    /\ WF_vars(Dispatcher)
    /\ \A e \in ExecIds : WF_vars(Scheduled(e))
    /\ WF_vars(HandlerFlag \/ HandlerFire \/ HandlerStatus \/ HandlerSteps)
    /\ WF_vars(StopCleanup \/ StopMark)

\* the queue alone, no cancel request made: the dispatcher and the tasks it spawns
NextQueue ==
    \/ DispatcherSweep \/ DispatcherSleep \/ DispatcherSpawn
    \/ \E e \in ExecIds : ExecutorRun(e)

SpecQueue == InitQueue /\ [][NextQueue]_vars

SpecFifo == InitFifo /\ [][NextQueue]_vars


\* the status write of the cancel handler fails: 500, the cancelled flag stays set
HandlerStatusFails ==
    /\ handler.pc = "status"
    /\ handler' = [pc |-> "idle", job |-> 0, status |-> "none"]
    /\ UNCHANGED <<jobs, steps, runnables, deployments, runningJobs, ex, containers, dirs,
                   disp, stop, cancels, cap, named, call>>

\* the goroutine of a finished task ends; the dispatcher's next go statement starts anew
Reap(e) ==
    /\ ex[e].pc = "done"
    /\ ex' = [ex EXCEPT ![e] = ExecIdle]
    /\ UNCHANGED <<jobs, steps, runnables, deployments, runningJobs, containers, dirs,
                   disp, handler, stop, cancels, cap, named, call>>

\* the server at work on several jobs: tasks come and go, a cancel request may fail
\* at its status write
NextServe ==
    \/ Dispatcher
    \/ \E e \in ExecIds : Executor(e)
    \/ \E e \in ExecIds : Reap(e)
    \/ HandlerCancelJob
    \/ HandlerStatusFails

\* several jobs waiting, their tasks run one at a time
InitServe == InitOn(1..MaxJobs, FifoConfigs, MaxRuns)

\* every goroutine scheduled, every request in flight carried on
SpecServe ==
    /\ InitServe /\ [][NextServe]_vars
    /\ WF_vars(Dispatcher)
    /\ \A e \in ExecIds : WF_vars(Scheduled(e))
    /\ \A e \in ExecIds : WF_vars(Reap(e))
    /\ WF_vars(HandlerFlag \/ HandlerFire \/ HandlerStatus \/ HandlerSteps \/ HandlerStatusFails)


\* run-pipeline (CLI): w.RunJob(int(jobID)) on the job just inserted, in the caller's
\* own goroutine
RunPipelineRun ==
    /\ \A e \in ExecIds : ex[e].pc = "idle"
    /\ \E j \in PendingJobs :
         ex' = [ex EXCEPT ![FreeExec] = [ExecIdle EXCEPT !.pc = "entry", !.job = j]]
    /\ UNCHANGED <<jobs, steps, runnables, deployments, runningJobs, containers,
                   dirs, disp, handler, stop, cancels, cap, named, call>>

\* run-pipeline (CLI): if err != nil { UPDATE jobs SET status = 'failed' }
RunPipelineFailed(e) ==
    /\ ex[e].pc = "wrapper"
    /\ jobs' = [jobs EXCEPT ![ex[e].job].status = "failed"]
    /\ ex' = [ex EXCEPT ![e] = Goto(e, "done")]
    /\ UNCHANGED <<steps, runnables, deployments, runningJobs, containers, dirs, disp,
                   handler, stop, cancels, cap, named, call>>

\* the run-pipeline command: one job, run synchronously, no queue and no requests
NextCli ==
    \/ RunPipelineRun
    \/ \E e \in ExecIds : ExecutorBody(e)
    \/ \E e \in ExecIds : RunPipelineFailed(e)

SpecCli == Init /\ [][NextCli]_vars

\* ------------------------------------------------------------------ properties
\* the executor task of job j, its deferred calls and its wrapper have all finished,
\* and no cancel or stop request is in flight
Finished(e) == ex[e].pc = "done"
Settled(j) ==
    /\ \E e \in ExecIds : ex[e].job = j /\ Finished(e)
    /\ \A e \in ExecIds : ex[e].job = j => Finished(e)
    /\ handler.pc = "idle"
    /\ stop.pc = "idle"

\* the step of the behaviour is one of the cancel handler or of stop-pipeline
ByHandlerOrStop == handler' # handler \/ stop' # stop

\* C1: once a job's stored status is success, failed, cancelled or stopped, no write by
\* the executor or by the dispatcher's task wrapper changes it to a different status
C1_TerminalStatusSticky ==
    [][\A j \in JobIds :
         (jobs[j].status \in TerminalJob /\ jobs'[j].status # jobs[j].status)
             => ByHandlerOrStop]_vars

\* C2: while a job's cancelled flag is true, no write sets its status to success
C2_CancelledNeverSuccess ==
    [][\A j \in JobIds :
         (jobs[j].cancelled /\ jobs'[j].status = "success")
             => jobs[j].status = "success"]_vars

\* C3: a job whose cancelled flag was set while its status was running ends cancelled,
\* once its executor task and the task's wrapper have finished
C3_CancelledWhileRunningEndsCancelled ==
    \A j \in JobIds :
        (Settled(j) /\ jobs[j].cancelledWhileRunning) => jobs[j].status = "cancelled"

\* C4: if step k is recorded failed then, unless the job was cancelled, every later step
\* is still pending and the job ends failed
C4_HaltOnFailure ==
    \A j \in JobIds : \A k \in DOMAIN steps[j] :
        (steps[j][k].status = "failed" /\ ~jobs[j].cancelled /\ Settled(j))
            => /\ \A m \in DOMAIN steps[j] : m > k => steps[j][m].status = "pending"
               /\ jobs[j].status = "failed"

\* C5: a step's status moves only pending -> running -> terminal, and a terminal status
\* is never changed again
StepRank(st) == IF st = "pending" THEN 0 ELSE IF st = "running" THEN 1 ELSE 2
C5_StepStatusMonotone ==
    [][\A j \in JobIds : \A k \in DOMAIN steps[j] :
         /\ StepRank(steps'[j][k].status) >= StepRank(steps[j][k].status)
         /\ steps[j][k].status \in TerminalStep
                => steps'[j][k].status = steps[j][k].status]_vars

\* C6: at no time are two executors running the same job
Running(e) ==
    ex[e].pc \notin {"idle", "entry", "preflight", "markRunning", "defers", "unregister",
                     "wrapper", "done"}
C6_OneExecutorPerJob ==
    \A e, f \in ExecIds :
        (e # f /\ ex[e].job = ex[f].job) => ~(Running(e) /\ Running(f))

\* C7: for a non-temporary job, once the executor has returned, every build container
\* it created has been removed
C7_ContainerRemovedOnExit ==
    \A e \in ExecIds :
        (Finished(e) /\ ~jobs[ex[e].job].temporary /\ ex[e].cid # 0)
            => ex[e].cid \notin containers

\* C8: the build container of a temporary job, once created, is removed by no step but
\* one of stop-pipeline: the executor never removes it
C8_TemporaryContainerKept ==
    [][\A e \in ExecIds :
         (ex[e].cid # 0 /\ jobs[ex[e].job].temporary
            /\ ex[e].cid \in containers /\ ex[e].cid \notin containers')
             => stop' # stop]_vars

\* a temporary job is terminal, its executor has returned, its build container exists
C8_Witness ==
    \E e \in ExecIds :
        /\ Finished(e) /\ ex[e].cid \in containers
        /\ jobs[ex[e].job].temporary /\ jobs[ex[e].job].status \in TerminalJob

\* C9: whenever a deployment row is success or failed, its runnable's status is success
C9_DeploymentGating ==
    \A j \in JobIds : \A r \in DOMAIN runnables[j] : \A d \in DOMAIN deployments[j][r] :
        deployments[j][r][d].status \in {"success", "failed"}
            => runnables[j][r].status = "success"


DisabledNames(j) ==
    {jobs[j].config[k].name : k \in {q \in DOMAIN jobs[j].config : ~jobs[j].config[q].enabled}}
EnabledNames(j) ==
    {jobs[j].config[k].name : k \in {q \in DOMAIN jobs[j].config : jobs[j].config[q].enabled}}

\* C12: no runnables row and no deployments row exists for a runnable the configuration
\* disables: the rows of a job are those of its enabled runnables, one each
C12_DisabledNeverPersisted ==
    \A j \in JobIds :
        /\ \A r \in DOMAIN runnables[j] : runnables[j][r].name \notin DisabledNames(j)
        /\ {runnables[j][r].name : r \in DOMAIN runnables[j]} = EnabledNames(j)
        /\ Len(runnables[j]) = Cardinality(EnabledNames(j))
        /\ DOMAIN deployments[j] = DOMAIN runnables[j]

\* a job whose configuration has a disabled runnable has been run to the end, every
\* runnable row of it processed
C12_Witness ==
    \E j \in JobIds :
        /\ DisabledNames(j) # {}
        /\ \E e \in ExecIds : ex[e].job = j /\ Finished(e)
        /\ Len(runnables[j]) >= 1
        /\ \A r \in DOMAIN runnables[j] : runnables[j][r].status \in {"success", "failed"}

\* C13: no step of the cancel handler changes a job status that is success or failed
C13_CancelAfterSettleChangesNothing ==
    [][\A j \in JobIds :
         (jobs[j].status \in {"success", "failed"} /\ handler' # handler)
             => jobs'[j].status = jobs[j].status]_vars

\* C14: if the job's context is cancelled while the executor reads the output of a
\* running bash step, the executor eventually reacts, that is leaves the read to mark
\* the step and the job cancelled and to remove the container, whether or not the
\* script writes another line or exits
C14_CancelDuringStepReacts ==
    \A e \in ExecIds : (ex[e].pc = "drain" /\ ex[e].ctxDone) ~> (ex[e].pc # "drain")

\* C15: once stop-pipeline has completed, every job of the pipeline has status stopped
\* and keeps it, also when its executor was running in the server as stop-pipeline was
\* invoked; stated for the runs in which no cancel request is made
C15_StoppedAfterStopPipeline ==
    \A j \in JobIds : (stop.pc = "done" /\ cancels = 0) => jobs[j].status = "stopped"

\* C16: once stop-pipeline has completed, none of the resources created by the
\* pipeline's jobs remains: no build container, no container of a docker_container
\* runnable, no clone directory; stated for a stop-pipeline invoked after the job's
\* executor has returned
C16_NoResourcesAfterStopPipeline ==
    (stop.pc = "done" /\ stop.settled)
        => containers = {} /\ named = {} /\ dirs = {}

\* C17: a step of a job enters running only when every earlier step of the job has a
\* terminal status, so no two steps of a job are running at the same time
C17_StepsRunInOrder ==
    [][\A j \in JobIds : \A k \in DOMAIN steps[j] :
         (steps[j][k].status # "running" /\ steps'[j][k].status = "running")
             => \A m \in DOMAIN steps[j] : m < k => steps[j][m].status \in TerminalStep]_vars

C20_PullFallbackOnce ==
    [][\A e \in ExecIds :
        /\ (ex[e].pc = "pull" /\ ex'[e].pc # "pull")
             => \/ ex'[e].pc = "check2" /\ ~ex'[e].fallback
                \/ ex'[e].pc = "pullFallback" /\ ex'[e].fallback
        /\ (ex[e].pc = "pullFallback" /\ ex'[e].pc # "pullFallback")
             => \/ ex'[e].pc = "check2" /\ ex'[e].fallback
                \/ ex'[e].pc = "defers" /\ ex'[e].err /\ ex'[e].cid = 0
                     /\ containers' = containers
        /\ (ex'[e].pc = "pullFallback" /\ ex[e].pc # "pullFallback") => ex[e].pc = "pull"]_vars

\* ------------------------------------------------------------------ pure functions
\* Strings are sequences of one-character strings; a call is examined on its own, the
\* engine not running: call.arg is the argument, call.ret the result once call.done
\* longest port mapping string examined
MaxLen == 5
Chars == {"0", ".", ":"}
PortStrings == UNION {[1..n -> Chars] : n \in 0..MaxLen}

\* the binding written back as hostIP:hostPort:containerPort
RenderPort(b) == b.hostIP \o <<":">> \o b.hostPort \o <<":">> \o b.containerPort

PortCalls ==
    {[fn |-> "parsePortMapping", arg |-> s, ret |-> <<>>, prev |-> <<>>, done |-> FALSE] :
        s \in PortStrings}

\* hostPort, containerPortStr, hostIP, err := parsePortMapping(portMapping)
ParsePortMapping ==
    /\ call.fn = "parsePortMapping" /\ ~call.done
    /\ call' = [call EXCEPT !.ret = parsePortMapping(call.arg), !.done = TRUE]
    /\ UNCHANGED engine

\* the binding a successful call returned, rendered and parsed again
ReparsePortMapping ==
    /\ call.fn = "parsePortMapping" /\ call.done /\ ~call.ret.err
    /\ call' = [fn |-> "reparse", arg |-> RenderPort(call.ret),
                ret |-> parsePortMapping(RenderPort(call.ret)), prev |-> call.ret,
                done |-> TRUE]
    /\ UNCHANGED engine

\* ---- detectLanguageAndVersion
\* a version is a sequence of characters, "latest" standing as one piece
Latest == <<"latest">>

\* marker files that may lie at the root of the project directory
Markers ==
    {"go.mod", "main.go", "package.json", "index.js", "requirements.txt", "setup.py",
     "pyproject.toml", "app.py", "build.sbt", "pom.xml", "build.gradle"}

\* go.mod as os.ReadFile and the go directive regexp see it: unreadable, without a
\* directive (go = <<>>), or with the version the directive names
GoMods ==
    {[readable |-> FALSE, go |-> <<>>], [readable |-> TRUE, go |-> <<>>],
     [readable |-> TRUE, go |-> <<"1", ".", "2">>]}

\* package.json: unreadable, not JSON, without engines.node (node = <<>>), or with it
PackageJsons ==
    {[readable |-> FALSE, json |-> FALSE, engines |-> FALSE, node |-> <<>>],
     [readable |-> TRUE, json |-> FALSE, engines |-> FALSE, node |-> <<>>],
     [readable |-> TRUE, json |-> TRUE, engines |-> FALSE, node |-> <<>>],
     [readable |-> TRUE, json |-> TRUE, engines |-> TRUE, node |-> <<"*">>],
     [readable |-> TRUE, json |-> TRUE, engines |-> TRUE, node |-> <<">", "=", "1", ".", "8">>]}

Dirs == [files : SUBSET Markers, gomod : GoMods, pkg : PackageJsons]

Nil == [Language |-> "nil", Version |-> <<>>]
LanguageInfo(l, v) == [Language |-> l, Version |-> v]

IsDigitOrDot(c) == c \in {"0", "1", "2", "3", "4", "5", "6", "7", "8", "9", "."}
\* regexp.MustCompile(`[^\d\.]`).ReplaceAllString(nodeVersion, "")
CleanVersion(v) == SelectSeq(v, IsDigitOrDot)

detectGo(d) ==
    IF "go.mod" \in d.files
    THEN IF ~d.gomod.readable THEN LanguageInfo("golang", Latest)
         ELSE IF d.gomod.go # <<>> THEN LanguageInfo("golang", d.gomod.go)
         ELSE LanguageInfo("golang", Latest)
    ELSE IF "main.go" \in d.files THEN LanguageInfo("golang", Latest)
    ELSE Nil

detectNode(d) ==
    IF "package.json" \in d.files
    THEN IF ~d.pkg.readable THEN LanguageInfo("node", Latest)
         ELSE IF d.pkg.json /\ d.pkg.engines /\ CleanVersion(d.pkg.node) # <<>>
              THEN LanguageInfo("node", CleanVersion(d.pkg.node))
         ELSE LanguageInfo("node", Latest)
    ELSE IF "index.js" \in d.files THEN LanguageInfo("node", Latest)
    ELSE Nil

detectPython(d) ==
    IF "requirements.txt" \in d.files THEN LanguageInfo("python", Latest)
    ELSE IF "setup.py" \in d.files THEN LanguageInfo("python", Latest)
    ELSE IF "pyproject.toml" \in d.files THEN LanguageInfo("python", Latest)
    ELSE IF "app.py" \in d.files THEN LanguageInfo("python", Latest)
    ELSE Nil

detectJavaScala(d) ==
    IF "build.sbt" \in d.files THEN LanguageInfo("scala", Latest)
    ELSE IF "pom.xml" \in d.files THEN LanguageInfo("java", Latest)
    ELSE IF "build.gradle" \in d.files THEN LanguageInfo("java", Latest)
    ELSE Nil

\* the detectors asked in another order: Node.js before Go
detectNodeFirst(d) ==
    [info |-> IF detectNode(d) # Nil THEN detectNode(d)
              ELSE IF detectGo(d) # Nil THEN detectGo(d)
              ELSE IF detectPython(d) # Nil THEN detectPython(d)
              ELSE IF detectJavaScala(d) # Nil THEN detectJavaScala(d)
              ELSE LanguageInfo("golang", Latest),
     err |-> FALSE]

detectLanguageAndVersion(d) ==
    [info |-> IF detectGo(d) # Nil THEN detectGo(d)
              ELSE IF detectNode(d) # Nil THEN detectNode(d)
              ELSE IF detectPython(d) # Nil THEN detectPython(d)
              ELSE IF detectJavaScala(d) # Nil THEN detectJavaScala(d)
              ELSE LanguageInfo("golang", Latest),
     err |-> FALSE]

DetectCalls ==
    {[fn |-> "detectLanguageAndVersion", arg |-> d, ret |-> <<>>, prev |-> <<>>,
      done |-> FALSE] : d \in Dirs}

\* langInfo, err := detectLanguageAndVersion(projectPath)
DetectLanguageAndVersion ==
    /\ call.fn = "detectLanguageAndVersion" /\ ~call.done
    /\ call' = [call EXCEPT !.ret = detectLanguageAndVersion(call.arg), !.done = TRUE]
    /\ UNCHANGED engine

\* ---- getBaseImage
\* an image reference is the repository with its colon followed by the tag's characters
Languages ==
    {"golang", "go", "node", "javascript", "python", "python3", "scala", "java", "rust", ""}
Versions == {<<>>, Latest, <<"1", ".", "2">>}

\* fmt.Sprintf("repo:%s", version), "repo:latest" for the empty version
Tagged(repo, version) == IF version # <<>> THEN <<repo>> \o version ELSE <<repo>> \o Latest

\* a table that forgets the version of scala images
getBaseImageUntagged(language, version) ==
    CASE language \in {"golang", "go"} -> Tagged("golang:", version)
      [] language \in {"python", "python3"} -> Tagged("python:", version)
      [] language \in {"node", "javascript"} -> Tagged("node:", version)
      [] language = "scala" -> Tagged("hseeberger/scala-sbt:", <<>>)
      [] OTHER -> <<"ubuntu:">> \o Latest

getBaseImage(language, version) ==
    CASE language \in {"golang", "go"} -> Tagged("golang:", version)
      [] language \in {"python", "python3"} -> Tagged("python:", version)
      [] language \in {"node", "javascript"} -> Tagged("node:", version)
      [] language = "scala" -> Tagged("hseeberger/scala-sbt:", version)
      [] OTHER -> <<"ubuntu:">> \o Latest

ImageCalls ==
    {[fn |-> "getBaseImage", arg |-> [language |-> l, version |-> v], ret |-> <<>>,
      prev |-> <<>>, done |-> FALSE] : l \in Languages, v \in Versions}

\* baseImage := getBaseImage(*job.Language, versionStr)
GetBaseImage ==
    /\ call.fn = "getBaseImage" /\ ~call.done
    /\ call' = [call EXCEPT !.ret = getBaseImage(call.arg.language, call.arg.version),
                            !.done = TRUE]
    /\ UNCHANGED engine

\* ---- the rows run-pipeline and POST /pipelines/:id/jobs insert for one PipelineConfig
\* a nullable column or pointer field: <<>> is NULL, <<v>> holds v
\* if config.X != "" { job.X = &config.X }
Ptr(s) == IF s # "" THEN <<s>> ELSE <<>>
\* if config.X { job.X = &config.X }
PtrTrue(b) == IF b THEN <<TRUE>> ELSE <<>>

\* PipelineConfig with its denormalized fields; "" is the field left out of the file
DenormConfigs ==
    [branch : {"", "main"}, repo_name : {"", "app"}, repo_url : {"", "git://r"},
     language : {"", "golang"}, version : {""}, folder : {"", "./src"},
     expose_ports : BOOLEAN, temporary : BOOLEAN, env : {<<>>, <<"K=V">>},
     steps : {Steps}, runnables : {<<RunnableArtifacts, RunnableDisabled>>}]

\* INSERT INTO jobs (pipeline_id, status, branch, repo_name, repo_url, language, version,
\* folder, expose_ports, temporary)
runPipelineJob(c) ==
    [status |-> "pending", branch |-> Ptr(c.branch), repo_name |-> Ptr(c.repo_name),
     repo_url |-> Ptr(c.repo_url), language |-> Ptr(c.language), version |-> Ptr(c.version),
     folder |-> Ptr(c.folder), expose_ports |-> PtrTrue(c.expose_ports),
     temporary |-> PtrTrue(c.temporary)]

\* INSERT INTO jobs (pipeline_id, status, branch, repo_name, language, version, folder,
\* expose_ports): repo_url is left NULL and temporary takes the column's DEFAULT 0
CreateJobJob(c) ==
    [status |-> "pending", branch |-> Ptr(c.branch), repo_name |-> Ptr(c.repo_name),
     repo_url |-> <<>>, language |-> Ptr(c.language), version |-> Ptr(c.version),
     folder |-> Ptr(c.folder), expose_ports |-> PtrTrue(c.expose_ports),
     temporary |-> <<FALSE>>]

runPipelineRows(c) ==
    [job |-> runPipelineJob(c), steps |-> StepRows(c), environments |-> c.env,
     runnables |-> RunnableRows(c), deployments |-> DeploymentRows(c)]

CreateJobRows(c) ==
    [job |-> CreateJobJob(c), steps |-> StepRows(c), environments |-> c.env,
     runnables |-> RunnableRows(c), deployments |-> DeploymentRows(c)]

InsertCalls ==
    {[fn |-> "runPipeline", arg |-> c, ret |-> <<>>, prev |-> <<>>, done |-> FALSE] :
        c \in DenormConfigs}

\* run-pipeline inserts the rows of the configuration
RunPipelineInserts ==
    /\ call.fn = "runPipeline" /\ ~call.done
    /\ call' = [call EXCEPT !.ret = runPipelineRows(call.arg), !.done = TRUE]
    /\ UNCHANGED engine

\* the API inserts the rows of the same configuration
CreateJobInserts ==
    /\ call.fn = "runPipeline" /\ call.done
    /\ call' = [fn |-> "CreateJob", arg |-> call.arg, ret |-> CreateJobRows(call.arg),
                prev |-> call.ret, done |-> TRUE]
    /\ UNCHANGED engine

PureCalls == PortCalls \cup DetectCalls \cup ImageCalls \cup InsertCalls

\* the engine at rest: no rows, no goroutines at work
InitPure ==
    /\ call \in PureCalls
    /\ cap = 0
    /\ jobs = <<>> /\ steps = <<>> /\ runnables = <<>> /\ deployments = <<>>
    /\ runningJobs = <<>>
    /\ ex = [e \in ExecIds |-> ExecIdle]
    /\ containers = {} /\ dirs = {} /\ named = {}
    /\ disp = [pc |-> "sweep", todo |-> {}]
    /\ handler = [pc |-> "idle", job |-> 0, status |-> "none"]
    /\ stop = [pc |-> "idle", todo |-> {}, job |-> 0, container_id |-> 0, temp_dir |-> FALSE,
               settled |-> FALSE]
    /\ cancels = 0

NextPure ==
    \/ ParsePortMapping \/ ReparsePortMapping \/ DetectLanguageAndVersion \/ GetBaseImage
    \/ RunPipelineInserts \/ CreateJobInserts

SpecPure == InitPure /\ [][NextPure]_vars

\* positions of the colons of a string
Colons(s) == {i \in 1..Len(s) : s[i] = ":"}

\* C21: a string with no colon parses to (host P, container P, ip 0.0.0.0), with one
\* colon to (host H, container C, ip 0.0.0.0), with two colons to (host H, container C,
\* ip IP), with more to a parse error; a successful result rendered as ip:host:container
\* parses to the same triple
C21_ParsePortMapping ==
    /\ (call.fn = "parsePortMapping" /\ call.done) =>
          LET s == call.arg
              n == Cardinality(Colons(s))
              c1 == CHOOSE i \in Colons(s) : \A k \in Colons(s) : i <= k
              c2 == CHOOSE i \in Colons(s) : \A k \in Colons(s) : i >= k
          IN  /\ n = 0 => call.ret = [hostPort |-> s, containerPort |-> s,
                                      hostIP |-> DefaultIP, err |-> FALSE]
              /\ n = 1 => call.ret = [hostPort |-> SubSeq(s, 1, c1 - 1),
                                      containerPort |-> SubSeq(s, c1 + 1, Len(s)),
                                      hostIP |-> DefaultIP, err |-> FALSE]
              /\ n = 2 => call.ret = [hostPort |-> SubSeq(s, c1 + 1, c2 - 1),
                                      containerPort |-> SubSeq(s, c2 + 1, Len(s)),
                                      hostIP |-> SubSeq(s, 1, c1 - 1), err |-> FALSE]
              /\ n >= 3 => call.ret.err
    /\ call.fn = "reparse" => call.ret = call.prev

\* a host:container mapping with distinct ports was parsed, rendered and parsed again
C21_Witness ==
    /\ call.fn = "reparse"
    /\ call.prev.hostPort # call.prev.containerPort
    /\ call.prev.hostPort # <<>>

\* the precedence list: the files that make a rule match, and the language it names
RuleFiles ==
    <<{"go.mod"}, {"main.go"}, {"package.json"}, {"index.js"},
      {"requirements.txt", "setup.py", "pyproject.toml", "app.py"},
      {"build.sbt"}, {"pom.xml", "build.gradle"}, Markers>>
RuleLanguage == <<"golang", "golang", "node", "node", "python", "scala", "java", "golang">>
FirstRule(d) ==
    IF \E i \in 1..7 : RuleFiles[i] \cap d.files # {}
    THEN CHOOSE i \in 1..7 : /\ RuleFiles[i] \cap d.files # {}
                             /\ \A k \in 1..(i - 1) : RuleFiles[k] \cap d.files = {}
    ELSE 8

\* C22: for every set of marker files the detector returns the language of the first
\* matching rule of go.mod, *.go, package.json, *.js, python markers, build.sbt,
\* pom.xml|build.gradle, else golang; the version is the manifest's where rule 1 or 3
\* finds one and latest otherwise; no manifest, unreadable or unparsable, makes it fail
C22_DetectionPrecedence ==
    (call.fn = "detectLanguageAndVersion" /\ call.done) =>
        LET d == call.arg
            r == FirstRule(d)
        IN  /\ ~call.ret.err
            /\ call.ret.info.Language = RuleLanguage[r]
            /\ call.ret.info.Version =
                 IF r = 1 /\ d.gomod.readable /\ d.gomod.go # <<>> THEN d.gomod.go
                 ELSE IF r = 3 /\ d.pkg.readable /\ d.pkg.json /\ d.pkg.engines
                           /\ \E i \in 1..Len(d.pkg.node) : IsDigitOrDot(d.pkg.node[i])
                      THEN <<"1", ".", "8">>
                 ELSE Latest

\* a directory with an unreadable go.mod beside a package.json that names a node version
\* was detected as golang
C22_Witness ==
    /\ call.fn = "detectLanguageAndVersion" /\ call.done
    /\ {"go.mod", "package.json"} \subseteq call.arg.files
    /\ ~call.arg.gomod.readable
    /\ call.arg.pkg.engines /\ call.arg.pkg.node # <<"*">>
    /\ call.ret.info = LanguageInfo("golang", Latest)

\* the tag of an image built for a version: latest for the empty version
TagOf(version) == IF version \in {<<>>, Latest} THEN Latest ELSE version

\* C23: getBaseImage returns golang:V for golang, node:V for node or javascript,
\* python:V for python, hseeberger/scala-sbt:V for scala and ubuntu:latest for every
\* other language, V being latest for the empty version or latest
C23_BaseImageTable ==
    (call.fn = "getBaseImage" /\ call.done) =>
        LET l == call.arg.language
            V == TagOf(call.arg.version)
        IN  call.ret =
              CASE l = "golang" -> <<"golang:">> \o V
                [] l \in {"node", "javascript"} -> <<"node:">> \o V
                [] l = "python" -> <<"python:">> \o V
                [] l = "scala" -> <<"hseeberger/scala-sbt:">> \o V
                [] OTHER -> <<"ubuntu:", "latest">>

\* C23 as amended: golang:V for golang or go, node:V for node or javascript, python:V
\* for python or python3, hseeberger/scala-sbt:V for scala and ubuntu:latest for every
\* other language, V being latest for the empty version or latest
C23_BaseImageTableAliases ==
    (call.fn = "getBaseImage" /\ call.done) =>
        LET l == call.arg.language
            V == TagOf(call.arg.version)
        IN  call.ret =
              CASE l \in {"golang", "go"} -> <<"golang:">> \o V
                [] l \in {"node", "javascript"} -> <<"node:">> \o V
                [] l \in {"python", "python3"} -> <<"python:">> \o V
                [] l = "scala" -> <<"hseeberger/scala-sbt:">> \o V
                [] OTHER -> <<"ubuntu:", "latest">>

\* the image of python3 with a version was derived
C23_Witness ==
    /\ call.fn = "getBaseImage" /\ call.done
    /\ call.arg.language = "python3" /\ call.arg.version = <<"1", ".", "2">>
    /\ call.ret = <<"python:", "1", ".", "2">>

\* a boolean column as the engine reads it: NULL and 0 are both false
IsSet(col) == col = <<TRUE>>

\* C24: for the same PipelineConfig the rows run-pipeline inserts and the rows the API's
\* CreateJob inserts are the same: the job row with its denormalized fields, and the
\* step, file, environment, runnable and deployment rows
C24_SameInsertions ==
    call.fn = "CreateJob" =>
        /\ \A f \in {"status", "branch", "repo_name", "repo_url", "language", "version",
                      "folder"} : call.ret.job[f] = call.prev.job[f]
        /\ \A f \in {"expose_ports", "temporary"} :
              IsSet(call.ret.job[f]) = IsSet(call.prev.job[f])
        /\ \A t \in {"steps", "environments", "runnables", "deployments"} :
              call.ret[t] = call.prev[t]

\* the step in which executor e, having seen its context cancelled, returns: before the
\* pull, before the container is created, on a line of the installer's output, or after
\* the step loop's handling (between steps, or on a line of a step's output)
ObservesCancellation(e) ==
    \/ ex[e].ctxDone /\ Check1(e)
    \/ ex[e].ctxDone /\ Check2(e)
    \/ InstallLine(e)
    \/ CancelSteps(e)

\* C25: whenever an executor observes cancellation, at any stage, it leaves no step of
\* the job pending or running and the job cancelled with a finished timestamp
C25_CancellationSettlesSteps ==
    [][\A e \in ExecIds :
        ObservesCancellation(e) =>
            /\ \A k \in DOMAIN steps'[ex[e].job] :
                  steps'[ex[e].job][k].status \notin {"pending", "running"}
            /\ jobs'[ex[e].job].status = "cancelled"
            /\ jobs'[ex[e].job].finished_at]_vars

\* C26: when the exec that writes one of a step's files exits non-zero, the executor
\* records the step failed with output 'Failed to create file' and goes on to the next
\* step, not to the failed step's script, leaving the job's status as it is
C26_FileFailureSkipsStep ==
    [][\A e \in ExecIds :
        (ex[e].pc = "fileFailed" /\ ex'[e].pc # "fileFailed") =>
            LET j == ex[e].job
                k == ex[e].stepIdx
            IN  /\ steps'[j][k].status = "failed"
                /\ steps'[j][k].output = "Failed to create file"
                /\ ex'[e].pc = "stepCheck" /\ ex'[e].stepIdx = k + 1
                /\ jobs'[j].status = jobs[j].status]_vars

\* C27: when the executor, with no cancel or stop request made, leaves a step whose type
\* is not bash for the next step or the end of the loop, it has run no script for it and
\* the step's status is success
C27_NonBashStepSucceeds ==
    [][\A e \in ExecIds :
        LET j == ex[e].job
            k == ex[e].stepIdx
        IN  (/\ cancels = 0 /\ stop.pc = "idle"
             /\ ex[e].pc \in {"stepRunning", "file", "fileFailed", "script", "drain", "stepWrite"}
             /\ steps[j][k].type # "bash"
             /\ ex'[e].pc = "stepCheck")
                => /\ ex[e].pc \notin {"script", "drain", "stepWrite"}
                   /\ steps'[j][k].status = "success"]_vars

\* executor e is between addRunningJob and removeRunningJob
Registered(e) == ex[e].pc \notin {"idle", "entry", "wrapper", "done"}

\* C28: while an executor of job J is between its entry and its exit the registry holds
\* an entry for J, and the entry is the cancel func of an executor of J that has not yet
\* exited; the entry an executor removes at its exit is never that of another executor
\* which is still running
C28_RegistryTracksExecutors ==
    /\ [](\A e \in ExecIds :
            Registered(e) =>
                LET r == runningJobs[ex[e].job]
                IN  r # 0 /\ ex[r].job = ex[e].job /\ Registered(r))
    /\ [][\A e \in ExecIds :
            (ex[e].pc = "unregister" /\ ex'[e].pc # "unregister") =>
                LET r == runningJobs[ex[e].job]
                IN  ~(r # 0 /\ r # e /\ Registered(r))]_vars

\* executor e is inside a runnable's producer or a provider's Deploy
InCall(e) == ex[e].pc \in {"produce", "deploy"}

\* C29: within one job no two producer or Deploy calls are in progress at the same
\* time, and a runnable row or deployment row is pending when an executor takes it up,
\* so that each row is processed at most once
C29_RunnablesSequential ==
    /\ [](\A e, f \in ExecIds :
            (e # f /\ ex[e].job = ex[f].job) => ~(InCall(e) /\ InCall(f)))
    /\ [][\A e \in ExecIds :
            LET j == ex[e].job IN
            /\ (ex[e].pc = "runnableRunning" /\ ex'[e].pc = "produce")
                 => runnables[j][Head(ex[e].rq)].status = "pending"
            /\ (ex[e].pc # "deploy" /\ ex'[e].pc = "deploy")
                 => deployments[j][Head(ex'[e].rq)][Head(ex'[e].dq)].status = "pending"]_vars

\* C30: whenever the dispatcher spawns an executor for a job, the job is pending and no
\* pending job was created before it
C30_FifoDispatch ==
    [][\A e \in ExecIds :
        (ex[e].pc = "idle" /\ ex'[e].pc = "entry") =>
            /\ jobs[ex'[e].job].status = "pending"
            /\ \A k \in DOMAIN jobs :
                  jobs[k].status = "pending"
                      => jobs[k].created_at >= jobs[ex'[e].job].created_at]_vars

\* the first job has left pending and an executor has been spawned for the second job,
\* created a second later
C30_Witness ==
    \E e \in ExecIds :
        /\ ex[e].pc = "entry" /\ ex[e].job = 2
        /\ jobs[1].created_at < jobs[2].created_at
        /\ jobs[1].status # "pending"

\* C31: when an executor that has created its build container returns an error, no
\* cancel or stop request having been made, the job ends failed and, for a non-temporary
\* job, the container has been removed
C31_FailureAfterCreateCleansUp ==
    \A e \in ExecIds :
        (ex[e].pc = "done" /\ ex[e].cid # 0 /\ ex[e].err /\ cancels = 0 /\ stop.pc = "idle")
            => /\ jobs[ex[e].job].status = "failed"
               /\ ~jobs[ex[e].job].temporary => ex[e].cid \notin containers

\* C32: for a non-temporary job with a repo_url, once the executor has exited the clone
\* directory it created no longer exists
C32_CloneDirRemovedOnExit ==
    \A e \in ExecIds :
        LET j == ex[e].job IN
        (ex[e].pc = "done" /\ jobs[j].repo_url /\ ~jobs[j].temporary) => j \notin dirs

\* C33: a write of container_id records a container that has been created, and when an
\* executor's ContainerStart succeeds the job row holds the id of the container started
C33_ContainerRecordedBeforeStart ==
    [][\A e \in ExecIds :
        LET j == ex[e].job IN
        /\ (ex[e].pc = "recordContainer" /\ ex'[e].pc = "start")
             => /\ jobs'[j].container_id = ex[e].cid
                /\ ex[e].cid \in containers
        /\ (ex[e].pc = "start" /\ ex'[e].pc \notin {"start", "defers"})
             => jobs[j].container_id = ex[e].cid]_vars

MalformedPorts(j) ==
    {r \in DOMAIN runnables[j] :
        /\ runnables[j][r].type = "docker_container"
        /\ \E i \in 1..Len(runnables[j][r].ports) : Cardinality(Colons(runnables[j][r].ports[i])) >= 3}

Dispatched(j) == \E e \in ExecIds : ex[e].pc # "idle" /\ ex[e].job = j

\* C36: under a fairly scheduled dispatcher every job that is pending is eventually
\* dispatched (or leaves pending by a cancel request), whatever other jobs are in the
\* store, an older job that stays pending with its cancelled flag set included
C36_PendingEventuallyDispatched ==
    \A j \in 1..MaxJobs :
        (jobs[j].status = "pending") ~> (Dispatched(j) \/ jobs[j].status # "pending")

\* C37: a job whose cancel request found it pending (the cancelled flag was written while
\* the stored status was pending) is never run: its status never reads running and no
\* build container is recorded for it
C37_CancelledPendingNeverRuns ==
    \A j \in DOMAIN jobs :
        (jobs[j].cancelled /\ ~jobs[j].cancelledWhileRunning)
            => /\ jobs[j].status # "running"
               /\ jobs[j].container_id = 0

\* C38: whenever a job's stored status is success, every one of its steps has status
\* success
C38_SuccessMeansAllStepsSucceeded ==
    \A j \in DOMAIN jobs :
        jobs[j].status = "success"
            => \A k \in DOMAIN steps[j] : steps[j][k].status = "success"

\* row r of job j, or one of its deployment rows, is pending here and is not after the step
LeavesPending(j, r) ==
    \/ runnables[j][r].status = "pending" /\ runnables'[j][r].status # "pending"
    \/ \E d \in DOMAIN deployments[j][r] :
          deployments[j][r][d].status = "pending" /\ deployments'[j][r][d].status # "pending"

\* every runnable row of job j and every deployment row under it is pending
RowsPending(j) ==
    \A r \in DOMAIN runnables[j] :
        /\ runnables[j][r].status = "pending"
        /\ \A d \in DOMAIN deployments[j][r] : deployments[j][r][d].status = "pending"

\* C39: a runnable or deployment row leaves pending only by a step of an executor that
\* is past its write of the job's success (the job's finished_at is stamped); when a job
\* has ended failed or cancelled every one of its runnable and deployment rows is still
\* pending
C39_RunnablesOnlyAfterSuccess ==
    [][\A j \in DOMAIN jobs :
        /\ \A r \in DOMAIN runnables[j] :
              LeavesPending(j, r) =>
                /\ jobs[j].finished_at
                /\ \E e \in ExecIds :
                      /\ ex[e].job = j
                      /\ ex'[e].pc # ex[e].pc
                      /\ ex[e].pc \in {"runnableRunning", "runnableSuccess",
                                       "runnableFailed", "deployWrite"}
        /\ (Settled(j) /\ jobs[j].status \in {"failed", "cancelled"})' => RowsPending(j)']_vars

\* C40: whenever a job's stored status is success, failed, cancelled or stopped its
\* finished_at is set, whichever writer stored the status
C40_TerminalStatusHasFinishedAt ==
    \A j \in DOMAIN jobs : jobs[j].status \in TerminalJob => jobs[j].finished_at

=============================================================================
